---- MODULE Spec2Model ----
(***************************************************************************)
(* A model of codereport/blink's command-line utilities:                   *)
(*   - download_top_nasdaq_200.py: main, get_top_nasdaq_stocks,            *)
(*     download_single_ticker and download_nasdaq_200_bulk (a thread pool  *)
(*     of max_workers threads running one download_single_ticker task per  *)
(*     ticker, and the as_completed loop that collects the outcomes);      *)
(*   - get_company_info.py: the truncation of the description.             *)
(* Strings are sequences of one-character strings, so that strip, upper,   *)
(* int, slicing and rfind are computed as Python computes them.            *)
(***************************************************************************)
EXTENDS Integers, Sequences, FiniteSets, TLC

VARIABLES
    argv,          \* sys.argv[1:] of the bulk script: a sequence of strings
    tickerFile,    \* nasdaq_tickers.txt: [kind, lines]
    pc,            \* where main / download_nasdaq_200_bulk stands
    max_workers,   \* main's max_workers
    warned,        \* "Invalid max_workers argument. Using default: 10" printed
    tickers,       \* the list get_top_nasdaq_stocks returned
    pool,          \* the ThreadPoolExecutor: "none", "open", "shutdown"
    queue,         \* the executor's work queue: task numbers, FIFO
    task,          \* task number -> the future / download_single_ticker call
    now,           \* time.time(), in seconds: a run lasts less than a second
    dirExists,     \* os.path.exists("historical_data")
    files,         \* ticker -> historical_data/<ticker>.csv
    i,             \* enumerate(as_completed(...), 1): results consumed so far
    consumed,      \* the futures as_completed has yielded
    successful,    \* download_nasdaq_200_bulk's successful
    failed,        \* download_nasdaq_200_bulk's failed
    progressLines, \* the progress lines printed, in order
    summaryLines,  \* the summary printed (total, successful, failed), if any
    exc,           \* the exception that left download_nasdaq_200_bulk, or "none"
    retval,        \* what download_nasdaq_200_bulk returned, if it returned
    info,          \* get_company_info: what ticker.info gives
    infoPc,        \* get_company_info: "call" or "done"
    infoResult     \* get_company_info: the dict returned

bulkVars == <<argv, tickerFile, pc, max_workers, warned, tickers, pool, queue,
              task, now, dirExists, files, i, consumed, successful, failed,
              progressLines, summaryLines, exc, retval>>
infoVars == <<info, infoPc, infoResult>>
vars == <<bulkVars, infoVars>>

(***************************************************************************)
(* Bounds of the model.                                                    *)
(***************************************************************************)
MaxLines == 2     \* lines of nasdaq_tickers.txt
MaxRows == 1      \* rows of a fetched price history

(***************************************************************************)
(* Program constants.                                                      *)
(***************************************************************************)
DefaultWorkers == 10
TickerCount == 200
FreshnessWindow == 86400
DescLimit == 500
SentenceMin == 200

(***************************************************************************)
(* Strings.                                                                *)
(***************************************************************************)
Digits == {"0", "1", "2", "3", "4", "5", "6", "7", "8", "9"}

DigitVal(c) ==
    CASE c = "0" -> 0 [] c = "1" -> 1 [] c = "2" -> 2 [] c = "3" -> 3
      [] c = "4" -> 4 [] c = "5" -> 5 [] c = "6" -> 6 [] c = "7" -> 7
      [] c = "8" -> 8 [] c = "9" -> 9

UpperChar(c) ==
    CASE c = "a" -> "A" [] c = "b" -> "B" [] c = "c" -> "C" [] OTHER -> c

\* str.upper()
Upper(s) == [k \in 1..Len(s) |-> UpperChar(s[k])]

IsSpace(c) == c \in {" ", "\n"}

RECURSIVE LStrip(_)
LStrip(s) == IF s # <<>> /\ IsSpace(Head(s)) THEN LStrip(Tail(s)) ELSE s

RECURSIVE RStrip(_)
RStrip(s) ==
    IF s # <<>> /\ IsSpace(s[Len(s)]) THEN RStrip(SubSeq(s, 1, Len(s) - 1)) ELSE s

\* str.strip()
Strip(s) == RStrip(LStrip(s))

RECURSIVE DigitsValue(_)
DigitsValue(s) ==
    IF s = <<>> THEN 0
    ELSE 10 * DigitsValue(SubSeq(s, 1, Len(s) - 1)) + DigitVal(s[Len(s)])

AllDigits(s) == s # <<>> /\ \A k \in 1..Len(s) : s[k] \in Digits

\* int(s): [ok |-> FALSE] stands for ValueError
ParseInt(s) ==
    LET t == Strip(s)
        signed == t # <<>> /\ t[1] \in {"+", "-"}
        body == IF signed THEN Tail(t) ELSE t
    IN  IF AllDigits(body)
        THEN [ok |-> TRUE,
              val |-> IF signed /\ t[1] = "-" THEN 0 - DigitsValue(body)
                      ELSE DigitsValue(body)]
        ELSE [ok |-> FALSE, val |-> 0]

(***************************************************************************)
(* get_top_nasdaq_stocks.                                                  *)
(***************************************************************************)
RECURSIVE ReadTickers(_)
ReadTickers(lines) ==
    IF lines = <<>> THEN <<>>
    ELSE LET line == Strip(Head(lines))
         IN  IF line # <<>> /\ line[1] # "#"
             THEN <<Upper(line)>> \o ReadTickers(Tail(lines))
             ELSE ReadTickers(Tail(lines))

GetTopNasdaqStocks(file, count) ==
    IF file.kind # "ok" THEN <<>>
    ELSE LET ts == ReadTickers(file.lines)
         IN  IF Len(ts) < count THEN ts ELSE SubSeq(ts, 1, count)

(***************************************************************************)
(* download_single_ticker: the outcomes it returns.                        *)
(***************************************************************************)
NoAge == 0 - 1

NoResult ==
    [ticker |-> <<>>, success |-> FALSE, msg |-> "none", rows |-> 0, raised |-> FALSE]

\* return ticker, True, "Already exists (recent)"
RecentOutcome(tk) ==
    [ticker |-> tk, success |-> TRUE, msg |-> "Already exists (recent)",
     rows |-> 0, raised |-> FALSE]

\* return ticker, False, "No data available"
NoDataOutcome(tk) ==
    [ticker |-> tk, success |-> FALSE, msg |-> "No data available",
     rows |-> 0, raised |-> FALSE]

\* return ticker, True, f"Downloaded {len(hist_data)} records"
DownloadedOutcome(tk, n) ==
    [ticker |-> tk, success |-> TRUE, msg |-> "Downloaded", rows |-> n,
     raised |-> FALSE]

\* download_single_ticker without its try/except: the exception is stored in
\* the future and future.result() raises it
UncaughtOutcome(tk) ==
    [ticker |-> tk, success |-> FALSE, msg |-> "Error", rows |-> 0, raised |-> TRUE]

\* except Exception as e: return ticker, False, f"Error: {str(e)}"
ErrorOutcome(tk) ==
    [ticker |-> tk, success |-> FALSE, msg |-> "Error", rows |-> 0, raised |-> FALSE]

\* file_age < 86400, off by one
IsRecentStrict(file_age) == file_age < FreshnessWindow - 1

\* if file_age < 86400
IsRecent(file_age) == file_age < FreshnessWindow

\* if hist_data.empty, inverted: an empty series is written as well
IsEmptyNever(n) == FALSE

\* hist_data.empty
IsEmpty(n) == n = 0

\* a task as executor.submit leaves it. Beside its place (pc) and the outcome
\* its future holds (result), the record keeps what the call did: the file
\* age it read (age), its calls of the data provider (net), the rows of the
\* series it got (rows), whether it wrote the file (wrote) and the exception
\* raised in its body (err)
QueuedTask ==
    [pc |-> "queued", age |-> NoAge, net |-> 0, rows |-> 0, wrote |-> FALSE,
     err |-> "none", result |-> NoResult]

NoFile == [exists |-> FALSE, mtime |-> 0, src |-> "none", rows |-> 0]

(***************************************************************************)
(* download_nasdaq_200_bulk: helpers.                                      *)
(***************************************************************************)
TaskIds == 1..Len(task)

RunningPcs == {"makedirs", "check_file", "fetch"}

\* the tasks a worker thread is executing
Running == {t \in TaskIds : task[t].pc \in RunningPcs}

\* a pool that starts a thread per task, whatever max_workers is
CanStartUnbounded == TRUE

\* ThreadPoolExecutor(max_workers=max_workers): a task starts only on a free
\* worker thread
CanStart == Cardinality(Running) < max_workers

\* k/n*100 printed as {progress:5.1f}: tenths of a percent, rounded half to even
Progress10(k, n) ==
    LET q == (k * 1000) \div n
        r == (k * 1000) % n
    IN  IF 2 * r < n THEN q
        ELSE IF 2 * r > n THEN q + 1
        ELSE IF q % 2 = 0 THEN q ELSE q + 1

\* progress computed from the 0-based index
ProgressLineZeroBased(k, n, res) ==
    [pct10 |-> Progress10(k - 1, n), ok |-> res.success, ticker |-> res.ticker,
     msg |-> res.msg]

\* print(f"[{progress:5.1f}%] {status} {ticker_result:6} - {message}")
ProgressLine(k, n, res) ==
    [pct10 |-> Progress10(k, n), ok |-> res.success, ticker |-> res.ticker,
     msg |-> res.msg]

\* failures dropped instead of collected
CollectSuccessOnly(lists, res) ==
    IF res.success
    THEN [lists EXCEPT !.successful = Append(@, res.ticker)]
    ELSE lists

\* successful.append(ticker_result) / failed.append((ticker_result, message))
Collect(lists, res) ==
    IF res.success
    THEN [lists EXCEPT !.successful = Append(@, res.ticker)]
    ELSE [lists EXCEPT !.failed = Append(@, <<res.ticker, res.msg>>)]

(***************************************************************************)
(* The initial states: the command line, the ticker file and the output    *)
(* directory as a run may find them.                                       *)
(***************************************************************************)
\* sys.argv[1:]: no argument, "abc", "0", "-1", "1", " 2"
ArgChoices ==
    { <<>>, << <<"a", "b", "c">> >>, << <<"0">> >>, << <<"-", "1">> >>,
      << <<"1">> >>, << <<" ", "2">> >> }

\* a line of nasdaq_tickers.txt: blank, a comment, "a", "B " (the newline
\* and other blanks are stripped)
LineChoices == { <<>>, <<"#", "a">>, <<"a">>, <<"B", " ">> }

Ids == {<<"A">>, <<"B">>}

RECURSIVE SeqsUpTo(_, _)
SeqsUpTo(S, n) ==
    IF n = 0 THEN {<<>>}
    ELSE LET shorter == SeqsUpTo(S, n - 1)
         IN  shorter \cup {Append(q, x) : q \in {r \in shorter : Len(r) = n - 1}, x \in S}

TickerFiles ==
    {[kind |-> "missing", lines |-> <<>>], [kind |-> "unreadable", lines |-> <<>>]}
        \cup {[kind |-> "ok", lines |-> ls] : ls \in SeqsUpTo(LineChoices, MaxLines)}

StartTime == FreshnessWindow

\* a file of an earlier run: its age at StartTime is just under, or exactly,
\* the freshness window
PriorFiles ==
    {[exists |-> TRUE, mtime |-> StartTime - a, src |-> "prior", rows |-> 1] :
        a \in {FreshnessWindow - 1, FreshnessWindow}}

Init ==
    /\ argv \in ArgChoices
    /\ tickerFile \in TickerFiles
    /\ pc = "main"
    /\ max_workers = 0
    /\ warned = FALSE
    /\ tickers = <<>>
    /\ pool = "none"
    /\ queue = <<>>
    /\ task = <<>>
    /\ now = StartTime
    /\ files \in [Ids -> {NoFile} \cup PriorFiles]
    /\ dirExists \in {d \in BOOLEAN : (\E id \in Ids : files[id].exists) => d}
    /\ i = 0
    /\ consumed = {}
    /\ successful = <<>>
    /\ failed = <<>>
    /\ progressLines = <<>>
    /\ summaryLines = <<>>
    /\ exc = "none"
    /\ retval = <<>>
    /\ info = [kind |-> "none", symbol |-> <<>>, summary |-> <<>>]
    /\ infoPc = "idle"
    /\ infoResult = [kind |-> "none", ticker |-> <<>>, description |-> <<>>]

(***************************************************************************)
(* main, up to the call of download_nasdaq_200_bulk.                       *)
(***************************************************************************)
Main ==
    /\ pc = "main"
    /\ LET parsed == IF Len(argv) > 0 THEN ParseInt(argv[1])
                     ELSE [ok |-> TRUE, val |-> DefaultWorkers]
       IN  /\ max_workers' = IF parsed.ok THEN parsed.val ELSE DefaultWorkers
           /\ warned' = ~parsed.ok
    /\ pc' = "load"
    /\ UNCHANGED <<argv, tickerFile, tickers, pool, queue, task, now, dirExists,
                   files, i, consumed, successful, failed, progressLines,
                   summaryLines, exc, retval, infoVars>>

\* tickers = get_top_nasdaq_stocks(200); successful = []; failed = []
Load ==
    /\ pc = "load"
    /\ tickers' = GetTopNasdaqStocks(tickerFile, TickerCount)
    /\ successful' = <<>>
    /\ failed' = <<>>
    /\ pc' = "enter_pool"
    /\ UNCHANGED <<argv, tickerFile, max_workers, warned, pool, queue, task, now,
                   dirExists, files, i, consumed, progressLines, summaryLines,
                   exc, retval, infoVars>>

\* with ThreadPoolExecutor(max_workers=max_workers) as executor:
\* the constructor raises ValueError when max_workers <= 0
EnterPool ==
    /\ pc = "enter_pool"
    /\ IF max_workers <= 0
       THEN /\ exc' = "ValueError"
            /\ pc' = "main_except"
            /\ pool' = pool
       ELSE /\ pool' = "open"
            /\ pc' = "submit"
            /\ exc' = exc
    /\ UNCHANGED <<argv, tickerFile, max_workers, warned, tickers, queue, task,
                   now, dirExists, files, i, consumed, successful, failed,
                   progressLines, summaryLines, retval, infoVars>>

\* executor.submit(download_single_ticker, ticker), one ticker of the list
\* after the other
Submit ==
    /\ pc = "submit"
    /\ Len(task) < Len(tickers)
    /\ task' = Append(task, QueuedTask)
    /\ queue' = Append(queue, Len(task) + 1)
    /\ UNCHANGED <<argv, tickerFile, pc, max_workers, warned, tickers, pool, now,
                   dirExists, files, i, consumed, successful, failed,
                   progressLines, summaryLines, exc, retval, infoVars>>

\* the dict comprehension is complete: as_completed(future_to_ticker) is called
AsCompleted ==
    /\ pc = "submit"
    /\ Len(task) = Len(tickers)
    /\ pc' = "consume"
    /\ UNCHANGED <<argv, tickerFile, max_workers, warned, tickers, pool, queue,
                   task, now, dirExists, files, i, consumed, successful, failed,
                   progressLines, summaryLines, exc, retval, infoVars>>

(***************************************************************************)
(* The worker threads: download_single_ticker, one file-system or network  *)
(* call per step.                                                          *)
(***************************************************************************)
orchVars == <<argv, tickerFile, pc, max_workers, warned, tickers, pool, i,
              consumed, successful, failed, progressLines, summaryLines, exc,
              retval>>

\* a worker thread takes the next work item off the queue and runs
\* download_single_ticker to its first file-system call:
\* if not os.path.exists(folder_name):
Start(t) ==
    /\ pool = "open"
    /\ queue # <<>>
    /\ t = Head(queue)
    /\ CanStart
    /\ queue' = Tail(queue)
    /\ task' = [task EXCEPT ![t].pc = IF dirExists THEN "check_file" ELSE "makedirs"]
    /\ UNCHANGED <<orchVars, now, dirExists, files, infoVars>>

\* os.makedirs(folder_name): FileExistsError when the directory exists by now
MakeDirs(t) ==
    /\ t \in TaskIds
    /\ task[t].pc = "makedirs"
    /\ IF dirExists
       THEN /\ task' = [task EXCEPT ![t].pc = "done",
                                    ![t].err = "FileExistsError",
                                    ![t].result = ErrorOutcome(tickers[t])]
            /\ dirExists' = dirExists
       ELSE /\ dirExists' = TRUE
            /\ task' = [task EXCEPT ![t].pc = "check_file"]
    /\ UNCHANGED <<orchVars, queue, now, files, infoVars>>

\* if os.path.exists(file_path):
\*     file_age = time.time() - os.path.getmtime(file_path)
\*     if file_age < 86400: return ticker, True, "Already exists (recent)"
CheckFile(t) ==
    /\ t \in TaskIds
    /\ task[t].pc = "check_file"
    /\ LET f == files[tickers[t]]
           file_age == now - f.mtime
       IN  IF f.exists
           THEN IF IsRecent(file_age)
                THEN task' = [task EXCEPT ![t].pc = "done", ![t].age = file_age,
                                          ![t].result = RecentOutcome(tickers[t])]
                ELSE task' = [task EXCEPT ![t].pc = "fetch", ![t].age = file_age]
           ELSE task' = [task EXCEPT ![t].pc = "fetch"]
    /\ UNCHANGED <<orchVars, queue, now, dirExists, files, infoVars>>

\* hist_data = yf.Ticker(ticker).history(period="max") raises
FetchRaises(t) ==
    /\ t \in TaskIds
    /\ task[t].pc = "fetch"
    /\ task' = [task EXCEPT ![t].pc = "done", ![t].net = @ + 1,
                            ![t].err = "FetchError",
                            ![t].result = ErrorOutcome(tickers[t])]
    /\ UNCHANGED <<orchVars, queue, now, dirExists, files, infoVars>>

\* hist_data = yf.Ticker(ticker).history(period="max") returns a series of
\* n rows; if hist_data.empty: return ticker, False, "No data available";
\* hist_data.to_csv(file_path) replaces the file by the series, or fails
\* (OSError) and leaves the file as it was or partly written. The network call
\* touches nothing the other threads see, so it is one step with the write.
FetchAndSave(t) ==
    /\ t \in TaskIds
    /\ task[t].pc = "fetch"
    /\ \E n \in 0..MaxRows :
          IF IsEmpty(n)
          THEN /\ task' = [task EXCEPT ![t].pc = "done", ![t].net = @ + 1,
                                       ![t].rows = n,
                                       ![t].result = NoDataOutcome(tickers[t])]
               /\ files' = files
          ELSE \/ /\ files' = [files EXCEPT ![tickers[t]] =
                                  [exists |-> TRUE, mtime |-> now,
                                   src |-> "fetched", rows |-> n]]
                  /\ task' = [task EXCEPT ![t].pc = "done", ![t].net = @ + 1,
                                 ![t].rows = n, ![t].wrote = TRUE,
                                 ![t].result = DownloadedOutcome(tickers[t], n)]
               \/ /\ \/ files' = files
                     \/ files' = [files EXCEPT ![tickers[t]] =
                                     [exists |-> TRUE, mtime |-> now,
                                      src |-> "partial", rows |-> 0]]
                  /\ task' = [task EXCEPT ![t].pc = "done", ![t].net = @ + 1,
                                 ![t].rows = n, ![t].err = "OSError",
                                 ![t].result = ErrorOutcome(tickers[t])]
    /\ UNCHANGED <<orchVars, queue, now, dirExists, infoVars>>

(***************************************************************************)
(* download_nasdaq_200_bulk: the as_completed loop, the summary, and main  *)
(* after the call.                                                         *)
(***************************************************************************)
\* for i, future in enumerate(as_completed(future_to_ticker), 1):
\* a completed future not yet yielded; future.result() raises what the task
\* raised
Consume(t) ==
    /\ pc = "consume"
    /\ t \in TaskIds \ consumed
    /\ task[t].pc = "done"
    /\ consumed' = consumed \cup {t}
    /\ i' = i + 1
    /\ LET res == task[t].result
           lists == Collect([successful |-> successful, failed |-> failed], res)
       IN  IF res.raised
           THEN /\ exc' = "TaskError"
                /\ pc' = "unwind"
                /\ UNCHANGED <<successful, failed, progressLines>>
           ELSE /\ successful' = lists.successful
                /\ failed' = lists.failed
                /\ progressLines' =
                       Append(progressLines, ProgressLine(i + 1, Len(tickers), res))
                /\ UNCHANGED <<exc, pc>>
    /\ UNCHANGED <<argv, tickerFile, max_workers, warned, tickers, pool, queue,
                   task, now, dirExists, files, summaryLines, retval, infoVars>>

\* the with block is left, by the end of the loop or by an exception:
\* executor.shutdown(wait=True) returns when every submitted task is done
ExitPool ==
    /\ pool = "open"
    /\ \/ pc = "consume" /\ consumed = TaskIds
       \/ pc = "unwind"
    /\ \A t \in TaskIds : task[t].pc = "done"
    /\ pool' = "shutdown"
    /\ pc' = IF exc = "none" THEN "summary" ELSE "main_except"
    /\ UNCHANGED <<argv, tickerFile, max_workers, warned, tickers, queue, task,
                   now, dirExists, files, i, consumed, successful, failed,
                   progressLines, summaryLines, exc, retval, infoVars>>

\* the summary: total, successful and failed are printed, then
\* elapsed_time/len(tickers) is computed (ZeroDivisionError for no tickers),
\* then return successful, failed
Summary ==
    /\ pc = "summary"
    /\ summaryLines' = <<[total |-> Len(tickers), successful |-> Len(successful),
                          failed |-> Len(failed)]>>
    /\ IF Len(tickers) = 0
       THEN /\ exc' = "ZeroDivisionError"
            /\ pc' = "main_except"
            /\ retval' = retval
       ELSE /\ retval' = <<[successful |-> successful, failed |-> failed]>>
            /\ pc' = "returned"
            /\ exc' = exc
    /\ UNCHANGED <<argv, tickerFile, max_workers, warned, tickers, pool, queue,
                   task, now, dirExists, files, i, consumed, successful, failed,
                   progressLines, infoVars>>

\* main after download_nasdaq_200_bulk returned
MainReport ==
    /\ pc = "returned"
    /\ pc' = "exit"
    /\ UNCHANGED <<argv, tickerFile, max_workers, warned, tickers, pool, queue,
                   task, now, dirExists, files, i, consumed, successful, failed,
                   progressLines, summaryLines, exc, retval, infoVars>>

\* main: except Exception as e: print(f"\nAn error occurred: {e}")
MainExcept ==
    /\ pc = "main_except"
    /\ pc' = "exit"
    /\ UNCHANGED <<argv, tickerFile, max_workers, warned, tickers, pool, queue,
                   task, now, dirExists, files, i, consumed, successful, failed,
                   progressLines, summaryLines, exc, retval, infoVars>>

Next ==
    \/ Main
    \/ Load
    \/ EnterPool
    \/ Submit
    \/ AsCompleted
    \/ \E t \in TaskIds : Start(t)
    \/ \E t \in TaskIds : MakeDirs(t)
    \/ \E t \in TaskIds : CheckFile(t)
    \/ \E t \in TaskIds : FetchRaises(t)
    \/ \E t \in TaskIds : FetchAndSave(t)
    \/ \E t \in TaskIds : Consume(t)
    \/ ExitPool
    \/ Summary
    \/ MainReport
    \/ MainExcept

Spec == Init /\ [][Next]_vars

(***************************************************************************)
(* get_company_info.py.                                                    *)
(***************************************************************************)
\* str.rfind(c): the last 0-based index of c in s, -1 when there is none
RFind(s, c) ==
    LET at == {k \in 1..Len(s) : s[k] = c}
    IN  IF at = {} THEN 0 - 1 ELSE (CHOOSE k \in at : \A m \in at : m <= k) - 1

Ellipsis == <<".", ".", ".">>

\* if len(description) > 500:
\*     truncated = description[:500]
\*     last_period = truncated.rfind(".")
\*     if last_period > 200: description = truncated[: last_period + 1]
\*     else: description = truncated + "..."
Truncate(description) ==
    IF Len(description) > DescLimit
    THEN LET truncated == SubSeq(description, 1, DescLimit)
             last_period == RFind(truncated, ".")
         IN  IF last_period > SentenceMin
             THEN SubSeq(truncated, 1, last_period + 1)
             ELSE truncated \o Ellipsis
    ELSE description

\* a text of n characters with a '.' at the positions of P and 'a' elsewhere
Text(n, P) == [k \in 1..n |-> IF k \in P THEN "." ELSE "a"]

DescLens ==
    {0, 1, SentenceMin + 2, DescLimit - 1, DescLimit, DescLimit + 1,
     DescLimit + 3, DescLimit + SentenceMin}

PeriodPositions ==
    {1, SentenceMin, SentenceMin + 1, SentenceMin + 2, DescLimit - 1, DescLimit,
     DescLimit + 1}

PeriodSets == {P \in SUBSET PeriodPositions : Cardinality(P) <= 2}

\* what yf.Ticker(symbol).info gives: an exception, nothing, a dict without
\* "shortName", or a dict with "shortName" and "longBusinessSummary"
Infos ==
    {[kind |-> k, symbol |-> <<"a">>, summary |-> <<>>] :
        k \in {"raise", "empty", "noname"}}
        \cup {[kind |-> "ok", symbol |-> <<"a">>, summary |-> Text(n, P)] :
                 n \in DescLens, P \in PeriodSets}

InitInfo ==
    /\ argv = <<>>
    /\ tickerFile = [kind |-> "missing", lines |-> <<>>]
    /\ pc = "exit"
    /\ max_workers = 0
    /\ warned = FALSE
    /\ tickers = <<>>
    /\ pool = "none"
    /\ queue = <<>>
    /\ task = <<>>
    /\ now = StartTime
    /\ files = [id \in Ids |-> NoFile]
    /\ dirExists = FALSE
    /\ i = 0
    /\ consumed = {}
    /\ successful = <<>>
    /\ failed = <<>>
    /\ progressLines = <<>>
    /\ summaryLines = <<>>
    /\ exc = "none"
    /\ retval = <<>>
    /\ info \in Infos
    /\ infoPc = "call"
    /\ infoResult = [kind |-> "none", ticker |-> <<>>, description |-> <<>>]

\* get_company_info(ticker_symbol)
GetCompanyInfo ==
    /\ infoPc = "call"
    /\ infoPc' = "done"
    /\ infoResult' =
          IF info.kind = "ok"
          THEN [kind |-> "ok", ticker |-> Upper(info.symbol),
                description |-> Truncate(info.summary)]
          ELSE [kind |-> "error", ticker |-> <<>>, description |-> <<>>]
    /\ UNCHANGED <<bulkVars, info>>

NextInfo == GetCompanyInfo

SpecInfo == InitInfo /\ [][NextInfo]_vars

(***************************************************************************)
(* The properties checked.                                                 *)
(***************************************************************************)
\* how often x occurs in the sequence s
Count(s, x) == Cardinality({k \in 1..Len(s) : s[k] = x})

Unique(s) == \A a, b \in 1..Len(s) : s[a] = s[b] => a = b

FailedTickers == [k \in 1..Len(failed) |-> failed[k][1]]

\* download_nasdaq_200_bulk has returned successful, failed
Returned ==
    /\ retval # <<>>
    /\ retval[1] = [successful |-> successful, failed |-> failed]

\* no other task of the run works on the ticker of task t
OnlyTaskOfTicker(t) == \A u \in TaskIds : tickers[u] = tickers[t] => u = t

ExactlyOneOutcome(id) ==
    \/ Count(successful, id) = 1 /\ Count(FailedTickers, id) = 0
    \/ Count(successful, id) = 0 /\ Count(FailedTickers, id) = 1

\* C1 as stated: for every non-empty ticker list, when
\* download_nasdaq_200_bulk returns, every ticker of the list is exactly once
\* in successful or exactly once in failed, never in both, and
\* len(successful) + len(failed) is the number of tickers submitted.
C1_EveryListPartitioned ==
    Returned =>
        /\ Len(successful) + Len(failed) = Len(tickers)
        /\ \A k \in 1..Len(tickers) : ExactlyOneOutcome(tickers[k])

\* C1 as amended: when download_nasdaq_200_bulk returns,
\* len(successful) + len(failed) is the number of tickers submitted and every
\* ticker has as many outcomes, in successful and failed together, as it has
\* occurrences in the list; when the tickers of the list are unique, each is
\* exactly once in successful or exactly once in failed, never in both.
C1_OutcomePerSubmission ==
    Returned =>
        /\ Len(successful) + Len(failed) = Len(tickers)
        /\ \A id \in Ids :
              Count(successful, id) + Count(FailedTickers, id) = Count(tickers, id)
        /\ Unique(tickers) => \A k \in 1..Len(tickers) : ExactlyOneOutcome(tickers[k])

C1_Witness ==
    /\ Returned
    /\ Len(tickers) = 2
    /\ Unique(tickers)
    /\ Len(successful) = 1
    /\ Len(failed) = 1

NoTickers == GetTopNasdaqStocks(tickerFile, TickerCount) = <<>>

\* C2: when the ticker list is empty (file missing, unreadable or without
\* tickers) and the worker count is valid, the run ends without a
\* ZeroDivisionError, its summary reports zero processed, zero successful and
\* zero failed, and download_nasdaq_200_bulk returns the pair of empty lists.
C2_EmptyListHandled ==
    (pc = "exit" /\ NoTickers /\ max_workers >= 1) =>
        /\ exc = "none"
        /\ summaryLines = <<[total |-> 0, successful |-> 0, failed |-> 0]>>
        /\ retval = <<[successful |-> <<>>, failed |-> <<>>]>>

\* C3: an error raised inside a task (directory creation, fetch, CSV write)
\* becomes the failure outcome (ticker, False, "Error: ...") of that task
\* alone: no exception leaves future.result(), the run is never stuck before
\* main ends, and when the pool is shut down every submitted task has run to
\* its outcome, each of them collected once the call returns.
C3_ErrorsCaught ==
    /\ exc # "TaskError"
    /\ pc # "unwind"
    /\ \A t \in TaskIds :
          (task[t].pc = "done" /\ task[t].err # "none") =>
              /\ task[t].result.ticker = tickers[t]
              /\ task[t].result.success = FALSE
              /\ task[t].result.msg = "Error"
              /\ task[t].result.raised = FALSE
    /\ pc # "exit" => ENABLED Next
    /\ pool = "shutdown" =>
          /\ Len(task) = Len(tickers)
          /\ \A t \in TaskIds : task[t].pc = "done" /\ task[t].result.msg # "none"
    /\ Returned =>
          /\ consumed = 1..Len(tickers)
          /\ \A t \in TaskIds :
                IF task[t].result.success
                THEN Count(successful, tickers[t]) >= 1
                ELSE \E k \in 1..Len(failed) :
                        failed[k] = <<tickers[t], task[t].result.msg>>

C3_Witness ==
    /\ Returned
    /\ \E t, u \in TaskIds :
          /\ task[t].err # "none"
          /\ task[u].err = "none"
          /\ task[u].result.success

\* C4: a task that finds its file with an age under 86400 seconds returns
\* (ticker, True, "Already exists (recent)") without a call of the data
\* provider and without writing the file, which stays as it was.
C4_FreshFileSkipped ==
    \A t \in TaskIds :
        (task[t].age >= 0 /\ task[t].age < FreshnessWindow) =>
            /\ task[t].pc = "done"
            /\ task[t].result.ticker = tickers[t]
            /\ task[t].result.success = TRUE
            /\ task[t].result.msg = "Already exists (recent)"
            /\ task[t].result.raised = FALSE
            /\ task[t].net = 0
            /\ ~task[t].wrote
            /\ OnlyTaskOfTicker(t) =>
                  /\ files[tickers[t]].src = "prior"
                  /\ files[tickers[t]].mtime = now - task[t].age

C4_Witness ==
    \E t \in TaskIds :
        /\ task[t].pc = "done"
        /\ task[t].age = FreshnessWindow - 1
        /\ files[tickers[t]].src = "prior"

\* C5 as stated: a task that finds its file with an age of 86400 seconds or
\* more, and in which no exception is raised, fetches from the data provider
\* and overwrites the file: after the task the file holds the fetched series.
C5_StaleAlwaysOverwritten ==
    \A t \in TaskIds :
        (task[t].pc = "done" /\ task[t].age >= FreshnessWindow
            /\ task[t].err = "none") =>
            /\ task[t].net = 1
            /\ task[t].wrote
            /\ files[tickers[t]].src = "fetched"

\* C5 as amended: a task that finds its file with an age of 86400 seconds or
\* more fetches from the data provider once; when the series is not empty
\* and the write succeeds, the file is overwritten, whatever it held before,
\* and holds the fetched series (as long as no other task of the same ticker
\* writes it again), and the outcome is a success with the row count; when
\* the series is empty or the fetch raises, the task does not write the file,
\* which keeps its earlier content, and the outcome is a failure.
C5_StaleOverwrittenWhenData ==
    \A t \in TaskIds :
        task[t].age >= FreshnessWindow =>
            /\ task[t].pc \in {"fetch", "done"}
            /\ task[t].pc = "done" =>
                  /\ task[t].net = 1
                  /\ (task[t].rows > 0 /\ task[t].err = "none") =>
                        /\ task[t].wrote
                        /\ task[t].result.success
                        /\ task[t].result.msg = "Downloaded"
                        /\ task[t].result.rows = task[t].rows
                        /\ files[tickers[t]].exists
                        /\ files[tickers[t]].src # "prior"
                        /\ files[tickers[t]].mtime = now
                        /\ OnlyTaskOfTicker(t) =>
                              /\ files[tickers[t]].src = "fetched"
                              /\ files[tickers[t]].rows = task[t].rows
                  /\ (task[t].rows = 0 \/ task[t].err = "FetchError") =>
                        /\ ~task[t].wrote
                        /\ ~task[t].result.success
                        /\ OnlyTaskOfTicker(t) => files[tickers[t]].src = "prior"

C5_Witness ==
    \E t \in TaskIds :
        /\ task[t].pc = "done"
        /\ task[t].age = FreshnessWindow
        /\ task[t].wrote
        /\ files[tickers[t]].src = "fetched"

\* C6: with unique tickers, no cached files, at least two workers, and
\* neither the data provider nor a write failing, when the call returns every
\* task has either a success outcome with its positive row count and its file
\* written, or, for an empty series, the "No data available" failure and no
\* file: no task fails because of another task's use of the file system, the
\* check-then-create of the output directory included.
C6_TasksIndependent ==
    (Returned /\ Unique(tickers) /\ max_workers >= 2
        /\ \A t \in TaskIds :
              task[t].age = NoAge /\ task[t].err \notin {"FetchError", "OSError"}) =>
        \A t \in TaskIds :
            \/ /\ task[t].result.success
               /\ task[t].result.rows > 0
               /\ files[tickers[t]].exists
               /\ files[tickers[t]].rows = task[t].result.rows
            \/ /\ task[t].result.msg = "No data available"
               /\ task[t].net = 1
               /\ ~files[tickers[t]].exists

RECURSIVE SeqToSet(_)
SeqToSet(s) == IF s = <<>> THEN {} ELSE {Head(s)} \cup SeqToSet(Tail(s))

\* C7: once the pool of max_workers threads exists, the tasks executing are
\* never more than max_workers, however many were submitted; the other
\* submitted tasks that have not run wait in the queue, in submission order;
\* tasks run only while the pool is open, and the pool is shut down only when
\* every submitted task is done.
C7_AtMostWRunning ==
    /\ pool # "none" => Cardinality(Running) <= max_workers
    /\ Running # {} => pool = "open"
    /\ SeqToSet(queue) = {t \in TaskIds : task[t].pc = "queued"}
    /\ \A a, b \in 1..Len(queue) : a < b => queue[a] < queue[b]
    /\ pool = "shutdown" =>
          /\ Len(task) = Len(tickers)
          /\ \A t \in TaskIds : task[t].pc = "done"

C7_Witness ==
    /\ Cardinality(Running) = max_workers
    /\ queue # <<>>
    /\ Len(task) > max_workers

\* C8: a worker-count argument that is a positive integer is used as
\* max_workers; any other argument ("abc", 0, a negative number) falls back
\* to 10 with the warning, and the pool is created: no ValueError ends the
\* run.
C8_InvalidFallsBack ==
    (pc # "main" /\ Len(argv) > 0) =>
        LET parsed == ParseInt(argv[1])
        IN  /\ IF parsed.ok /\ parsed.val >= 1
               THEN max_workers = parsed.val /\ ~warned
               ELSE max_workers = DefaultWorkers /\ warned
            /\ exc # "ValueError"

LastPeriodWithinLimit(d) ==
    LET at == {k \in 1..Len(d) : k <= DescLimit /\ d[k] = "."}
    IN  IF at = {} THEN 0 ELSE CHOOSE k \in at : \A m \in at : m <= k

\* C10: the description get_company_info returns has at most 500 characters:
\* one of at most 500 characters is returned as it is; a longer one ends at
\* the last '.' of its first 500 characters when that '.' lies past the
\* 200-character mark (Python index > 200), and otherwise is truncated and
\* ends with "...", still within 500 characters.
C10_DescriptionWithinLimit ==
    (infoPc = "done" /\ info.kind = "ok") =>
        LET d == info.summary
            r == infoResult.description
            p == LastPeriodWithinLimit(d)
        IN  /\ Len(r) <= DescLimit
            /\ Len(d) <= DescLimit => r = d
            /\ (Len(d) > DescLimit /\ p - 1 > SentenceMin) => r = SubSeq(d, 1, p)
            /\ (Len(d) > DescLimit /\ p - 1 <= SentenceMin) =>
                  /\ Len(r) >= 3
                  /\ SubSeq(r, Len(r) - 2, Len(r)) = <<".", ".", ".">>

====
